---- MODULE Spec2Model ----
(***************************************************************************)
(* One run of either Dremio monitoring collector:                          *)
(*   collector 1 = dremioMetrics.py       (coordinators, child clusters,   *)
(*                                         executor SQL statistics)        *)
(*   collector 2 = dremioSourceMetrics.py (coordinators, catalog sources,  *)
(*                                         virtual-dataset count)          *)
(* A run is the body of main(): a linear sequence of HTTP calls, SQL calls *)
(* and push-gateway pushes.  Every external call the run makes is appended *)
(* to the log `calls`, in program order, with the answer it received.      *)
(* The answers of the outside world (connection refused, HTTP status code, *)
(* JSON payloads, SQL rows) are chosen when the call is made.              *)
(*                                                                         *)
(* Environment assumptions: the push gateway accepts every pushadd, and    *)
(* every HTTP answer carries a JSON body of the documented shape.          *)
(***************************************************************************)
EXTENDS Integers, Sequences, FiniteSets, TLC

(***************************************************************************)
(* Bounds of the model.                                                    *)
(***************************************************************************)
MaxItems == 2        \* groups in the push gateway's listing
MaxCount == 1        \* pending / provisioning / decommissioning counts
MaxEntries == 2      \* entries of the root catalog
MaxRows == 1         \* rows of one SQL result set

(***************************************************************************)
(* Module-level names of the two scripts.                                  *)
(***************************************************************************)
api_coordinator_status_metric == "dremio_api_coordinator_up"
api_cluster_status_metric == "dremio_api_cluster_up"
api_total_executor_metric == "dremio_api_total_executors_Value"
api_current_executor_metric == "dremio_api_current_executors_Value"
api_cluster_memory_allocated_metric == "dremio_api_cluster_allocated_memory_Value"
api_cluster_memory_used_metric == "dremio_api_cluster_used_memory_Value"
sql_executor_metric == "dremio_sql_executors_Value"
sql_direct_max_value == "dremio_sql_executor_direct_max_Value"
sql_direct_current_value == "dremio_sql_executor_direct_current_Value"
sql_heap_max_value == "dremio_sql_executor_heap_max_Value"
sql_heap_current_value == "dremio_sql_executor_heap_current_Value"
sql_threads_waiting_value == "dremio_sql_threads_waiting_Value"
api_source_status_metric == "dremio_api_source_status_Value"
sql_vds_count_value == "dremio_sql_vds_count_Value"

server_status == "/apiv2/server_status"
login_url == "/apiv2/login"
cluster_url == "/apiv2/provision/clusters"
catalog_url == "/api/v3/catalog/"
catalog_detail == "/api/v3/catalog/<id>"      \* catalog_url + container['id']
pgw_api_url == "/api/v1/metrics"
pgwendpoint == "dremio-master:9091"

(***************************************************************************)
(* The configuration section named on the command line.                    *)
(***************************************************************************)
masterCoordinator == "master-host"
standbyCoordinator == "standby-host"
Jobs == {"prod", "test"}      \* cluster identifiers (sys.argv[2])

(***************************************************************************)
(* A gauge value is a Python float; it is kept exact as a fraction.        *)
(***************************************************************************)
Num(n) == [num |-> n, den |-> 1]
IsZero(v) == v.num = 0

RECURSIVE SeqSum(_)
SeqSum(s) == IF s = <<>> THEN 0 ELSE Head(s) + SeqSum(Tail(s))

RECURSIVE Flatten(_)
Flatten(ss) == IF ss = <<>> THEN <<>> ELSE Head(ss) \o Flatten(Tail(ss))

(***************************************************************************)
(* A label set is a set of <<name, value>> pairs.                          *)
(***************************************************************************)
LabelNames(l) == {p[1] : p \in l}
LabelValue(l, k) == (CHOOSE p \in l : p[1] = k)[2]

(***************************************************************************)
(* External calls, as they are logged.                                     *)
(*   http : a requests call; code = 0 stands for requests.ConnectionError  *)
(*   sql  : a jaydebeapi call                                              *)
(*   push : a call of a prometheus_client gateway function (fn)            *)
(***************************************************************************)
Http(method, host, path, code) ==
    [op |-> "http", method |-> method, host |-> host, path |-> path, code |-> code]

\* GET of catalog_url + id
HttpDetail(host, id, code) ==
    [op |-> "http", method |-> "GET", host |-> host, path |-> catalog_detail,
     id |-> id, code |-> code]

Sql(what, host, ok) == [op |-> "sql", what |-> what, host |-> host, ok |-> ok]

PushAdd(name, job, labels, grouping, value) ==
    [op |-> "push", fn |-> "pushadd_to_gateway", name |-> name, job |-> job,
     labels |-> labels, grouping |-> grouping, value |-> value]

(***************************************************************************)
(* The push functions of collector 1.                                      *)
(***************************************************************************)
push_api_coordinator_status_metric(job, coordinator, intendedRole, st) ==
    PushAdd(api_coordinator_status_metric, job,
            {<<"instance", coordinator>>, <<"role", intendedRole>>},
            {<<"job", job>>, <<"role", intendedRole>>}, Num(st))

push_api_cluster_status_metric_swapped(job, clusterName, st) ==
    PushAdd(api_cluster_status_metric, clusterName, {<<"cluster", job>>},
            {<<"job", clusterName>>, <<"cluster", job>>}, Num(st))

push_api_cluster_status_metric(job, clusterName, st) ==
    PushAdd(api_cluster_status_metric, job, {<<"cluster", clusterName>>},
            {<<"job", job>>, <<"cluster", clusterName>>}, Num(st))

push_api_total_executor_metric(job, clusterName, desiredExecutorCount) ==
    PushAdd(api_total_executor_metric, job, {<<"cluster", clusterName>>},
            {<<"job", job>>, <<"cluster", clusterName>>}, Num(desiredExecutorCount))

push_api_current_executor_metric(job, clusterName, runningCount) ==
    PushAdd(api_current_executor_metric, job, {<<"cluster", clusterName>>},
            {<<"job", job>>, <<"cluster", clusterName>>}, Num(runningCount))

push_api_cluster_memory_allocated_metric(job, clusterName, yarnMemoryMB) ==
    PushAdd(api_cluster_memory_allocated_metric, job, {<<"cluster", clusterName>>},
            {<<"job", job>>, <<"cluster", clusterName>>},
            [num |-> yarnMemoryMB, den |-> 1024])

push_api_cluster_memory_used_metric(job, clusterName, usedMemoryMB) ==
    PushAdd(api_cluster_memory_used_metric, job, {<<"cluster", clusterName>>},
            {<<"job", job>>, <<"cluster", clusterName>>},
            [num |-> usedMemoryMB, den |-> 1024])

push_sql_metric(metricName, job, executor, metricValue) ==
    PushAdd(metricName, job, {<<"executor", executor>>},
            {<<"job", job>>, <<"executor", executor>>}, Num(metricValue))

(***************************************************************************)
(* The push functions of collector 2.                                      *)
(***************************************************************************)
push_source_status_metric(job, sourceName, st) ==
    PushAdd(api_source_status_metric, job, {<<"source", sourceName>>},
            {<<"job", job>>, <<"source", sourceName>>}, Num(st))

push_sql_metric2(metricName, job, metricValue) ==
    PushAdd(metricName, job, {}, {<<"job", job>>}, Num(metricValue))

(***************************************************************************)
(* Errors that end a run.  carries = the message holds the HTTP status     *)
(* code `code`; vendor = it also holds the text of get_error_message.      *)
(***************************************************************************)
NoError == [type |-> "none", site |-> "none", carries |-> FALSE, code |-> 0, vendor |-> FALSE]
Error(type, site) == [type |-> type, site |-> site, carries |-> FALSE, code |-> 0, vendor |-> FALSE]
ErrorWithCode(type, site, code, vendor) ==
    [type |-> type, site |-> site, carries |-> TRUE, code |-> code, vendor |-> vendor]

VARIABLES
    collector,        \* 1 = dremioMetrics.py, 2 = dremioSourceMetrics.py
    debug,            \* the module-level debug flag
    standbyEnabled,   \* 'standbycoordinator' in cluster
    dremioCluster,    \* sys.argv[2]
    pc,               \* position of the run in main()
    response,         \* "unbound" until a requests call has returned
    role,             \* collector 1 only
    masterStatus,     \* collector 1 only (-1 in collector 2)
    standbyStatus,    \* collector 1 only (-1 in collector 2)
    status,           \* -1 = not assigned yet (collector 1 before the resolution)
    activeCoordinator,
    items,            \* listing of the push gateway (reset path)
    clusters,         \* collector 1: clusterList of the provisioning API
    containers,       \* collector 2: data of the root catalog
    idx,              \* loop position in items / clusters / containers
    error,            \* the exception that ended the run, or NoError
    calls             \* log of the external calls made so far

vars == <<collector, debug, standbyEnabled, dremioCluster, pc, response, role,
          masterStatus, standbyStatus, status, activeCoordinator, items,
          clusters, containers, idx, error, calls>>

config == <<collector, debug, standbyEnabled, dremioCluster>>

(***************************************************************************)
(* State at the start of "Check Coordinators".  debug is shipped as True;  *)
(* it is the scripts' configuration switch, and both settings are covered. *)
(***************************************************************************)
Init ==
    /\ collector \in {1, 2}
    /\ debug \in BOOLEAN
    /\ standbyEnabled \in BOOLEAN
    /\ dremioCluster \in Jobs
    /\ pc = "checkMaster"
    /\ response = "unbound"
    /\ role = "unset"
    /\ masterStatus = IF collector = 1 THEN 2 ELSE -1
    /\ standbyStatus = IF collector = 1 THEN 2 ELSE -1
    /\ status = IF collector = 2 THEN 1 ELSE -1
    /\ activeCoordinator = masterCoordinator
    /\ items = <<>>
    /\ clusters = <<>>
    /\ containers = <<>>
    /\ idx = 0
    /\ error = NoError
    /\ calls = <<>>

Abort(e) == /\ pc' = "aborted"
            /\ error' = e

(***************************************************************************)
(* print(..., response.json()) in a connection-failure handler: raises     *)
(* UnboundLocalError when no requests call has returned yet.               *)
(***************************************************************************)
DebugPrintRaises(dbg, resp) == dbg /\ resp = "unbound"

(***************************************************************************)
(* try: requests.get(masterUrl + server_status)                            *)
(***************************************************************************)
CheckMaster ==
    /\ pc = "checkMaster"
    /\ \E code \in {0, 200} :
         /\ calls' = Append(calls, Http("GET", masterCoordinator, server_status, code))
         /\ IF code = 0
              THEN /\ pc' = "masterHandler"
                   /\ UNCHANGED response
              ELSE /\ pc' = IF collector = 1 THEN "pushMaster" ELSE "branch"
                   /\ response' = "bound"
    /\ role' = IF collector = 1 THEN "Master" ELSE role
    /\ UNCHANGED <<config, masterStatus, standbyStatus, status, activeCoordinator,
                   items, clusters, containers, idx, error>>

(***************************************************************************)
(* The probe made by the handler of the primary's connection failure when  *)
(* a standby is configured: collector 1 asks masterJmxUrl, collector 2 the *)
(* standby's status endpoint.                                              *)
(***************************************************************************)
jmx_root == ":jmxport"

FailoverProbeHost(c) == IF c = 1 THEN masterCoordinator ELSE standbyCoordinator
FailoverProbePath(c) == IF c = 1 THEN jmx_root ELSE server_status

(***************************************************************************)
(* except requests.ConnectionError: of the primary's probe, whole handler. *)
(***************************************************************************)
MasterConnectionError ==
    /\ pc = "masterHandler"
    /\ IF DebugPrintRaises(debug, response)
         THEN /\ Abort(Error("UnboundLocalError", "MasterConnectionError"))
              /\ UNCHANGED <<calls, masterStatus, status, activeCoordinator, response>>
         ELSE IF standbyEnabled
           THEN \E code \in {0, 200} :
                  /\ calls' = Append(calls, Http("GET", FailoverProbeHost(collector),
                                                 FailoverProbePath(collector), code))
                  /\ activeCoordinator' = standbyCoordinator
                  /\ IF code = 0
                       THEN /\ UNCHANGED response
                            /\ IF DebugPrintRaises(debug, response)
                                 THEN /\ Abort(Error("UnboundLocalError", "StandbyConnectionError"))
                                      /\ masterStatus' = IF collector = 1 THEN 1 ELSE masterStatus
                                      /\ UNCHANGED status
                                 ELSE /\ pc' = IF collector = 1 THEN "pushMaster" ELSE "branch"
                                      /\ masterStatus' = IF collector = 1 THEN 0 ELSE masterStatus
                                      /\ status' = IF collector = 2 THEN 0 ELSE status
                                      /\ UNCHANGED error
                       ELSE /\ response' = "bound"
                            /\ pc' = IF collector = 1 THEN "pushMaster" ELSE "branch"
                            /\ masterStatus' = IF collector = 1 THEN 1 ELSE masterStatus
                            /\ UNCHANGED <<status, error>>
           ELSE /\ pc' = IF collector = 1 THEN "pushMaster" ELSE "branch"
                /\ masterStatus' = IF collector = 1 THEN 0 ELSE masterStatus
                /\ status' = IF collector = 2 THEN 0 ELSE status
                /\ UNCHANGED <<calls, activeCoordinator, response, error>>
    /\ UNCHANGED <<config, role, standbyStatus, items, clusters, containers, idx>>

(***************************************************************************)
(* Collector 1: push_api_coordinator_status_metric for the primary.        *)
(***************************************************************************)
PushMasterStatus ==
    /\ pc = "pushMaster"
    /\ calls' = Append(calls, push_api_coordinator_status_metric(
                                  dremioCluster, masterCoordinator, role, masterStatus))
    /\ pc' = IF standbyEnabled THEN "checkStandby" ELSE "resolve"
    /\ UNCHANGED <<config, response, role, masterStatus, standbyStatus, status,
                   activeCoordinator, items, clusters, containers, idx, error>>

(***************************************************************************)
(* Collector 1, if standbyEnabled: probe the standby's status endpoint,    *)
(* on failure its JMX port, then push the standby's coordinator status.    *)
(***************************************************************************)
StandbyProbeCalls(restCode, jmxCode) ==
    <<Http("GET", standbyCoordinator, server_status, restCode)>>
    \o (IF restCode = 0 THEN <<Http("GET", standbyCoordinator, jmx_root, jmxCode)>> ELSE <<>>)

StandbyStatusOf(restCode, jmxCode) ==
    IF restCode # 0 THEN 1 ELSE IF jmxCode # 0 THEN 2 ELSE 0

CheckStandby ==
    /\ pc = "checkStandby"
    /\ \E restCode \in {0, 200}, jmxCode \in {0, 200} :
         /\ restCode # 0 => jmxCode = 200              \* no second probe: one outcome
         /\ standbyStatus' = StandbyStatusOf(restCode, jmxCode)
         /\ response' = IF restCode # 0 \/ jmxCode # 0 THEN "bound" ELSE response
         /\ calls' = calls \o StandbyProbeCalls(restCode, jmxCode)
                     \o <<push_api_coordinator_status_metric(
                            dremioCluster, standbyCoordinator, "Standby",
                            StandbyStatusOf(restCode, jmxCode))>>
    /\ role' = "Standby"
    /\ pc' = "resolve"
    /\ UNCHANGED <<config, masterStatus, status, activeCoordinator, items, clusters, containers,
                   idx, error>>

(***************************************************************************)
(* Collector 1: "Coordinator Down Conditions (HA and non-HA)".             *)
(***************************************************************************)
ClusterStatusOfCountsJmx(mStatus, sbEnabled, sbStatus) ==
    IF mStatus >= 1 THEN 1
    ELSE IF sbEnabled /\ sbStatus >= 1 THEN 1
    ELSE 0

ClusterStatusOf(mStatus, sbEnabled, sbStatus) ==
    IF mStatus = 2 THEN 1
    ELSE IF sbEnabled /\ sbStatus = 1 THEN 1
    ELSE 0

ResolveStatus ==
    /\ pc = "resolve"
    /\ status' = ClusterStatusOf(masterStatus, standbyEnabled, standbyStatus)
    /\ pc' = "branch"
    /\ UNCHANGED <<config, response, role, masterStatus, standbyStatus,
                   activeCoordinator, items, clusters, containers, idx, error, calls>>

(***************************************************************************)
(* raise RuntimeError("API Error " + str(code) + " - " +                   *)
(*                    get_error_message(response))                         *)
(* get_error_message is declared with the parameters (self, response) and  *)
(* is called with one argument: the call raises TypeError before the       *)
(* RuntimeError is built.                                                  *)
(***************************************************************************)
get_error_message_params == 2
get_error_message_args == 1

ApiFailure(site, code) ==
    IF get_error_message_args = get_error_message_params
      THEN ErrorWithCode("RuntimeError", site, code, TRUE)
      ELSE Error("TypeError", site)

(***************************************************************************)
(* The push gateway's listing (GET /api/v1/metrics, field 'data'): one     *)
(* item per group; names = the metric names that are keys of the item,     *)
(* labels = the labels of the first series of each of them (the group's    *)
(* labels).                                                                *)
(***************************************************************************)
ClusterMetricNames == {api_cluster_status_metric, api_total_executor_metric,
                       api_current_executor_metric, api_cluster_memory_allocated_metric,
                       api_cluster_memory_used_metric}
SqlMetricNames == {sql_executor_metric, sql_threads_waiting_value, sql_direct_max_value,
                   sql_direct_current_value, sql_heap_max_value, sql_heap_current_value}

ClusterGroup(j, c) == [names |-> ClusterMetricNames,
                       labels |-> {<<"job", j>>, <<"cluster", c>>, <<"instance", "">>}]
ExecutorGroup(j, e) == [names |-> SqlMetricNames,
                        labels |-> {<<"job", j>>, <<"executor", e>>, <<"instance", "">>}]
CoordinatorGroup(j, r) == [names |-> {api_coordinator_status_metric},
                           labels |-> {<<"job", j>>, <<"role", r>>, <<"instance", masterCoordinator>>}]
SourceGroup(j, s) == [names |-> {api_source_status_metric},
                      labels |-> {<<"job", j>>, <<"source", s>>, <<"instance", "">>}]
TypedSourceGroup(j, s) == [names |-> {api_source_status_metric},
                           labels |-> {<<"job", j>>, <<"source", s>>, <<"type", "S3">>}]
VdsGroup(j) == [names |-> {sql_vds_count_value},
                labels |-> {<<"job", j>>, <<"instance", "">>}]

ItemChoices ==
    UNION {{ClusterGroup(j, "c1"), ExecutorGroup(j, "e1"), SourceGroup(j, "s1"), VdsGroup(j)}
           : j \in Jobs}
    \cup {TypedSourceGroup("prod", "s2"), CoordinatorGroup("prod", "Master")}

SeqsUpTo(S, n) == UNION {[1..k -> S] : k \in 0..n}

Listings == SeqsUpTo(ItemChoices, MaxItems)

(***************************************************************************)
(* Body of "for item in items" in the cluster-down path.  The result is    *)
(* the pushes made for the item and the exception that ended it, if any.   *)
(***************************************************************************)
Outcome(pushes, err) == [pushes |-> pushes, error |-> err]

JobMatches(jobName, job) == jobName = job

ResetClusterPushesKeepsMemory(job, coordinator, intendedRole, clusterName) ==
    << push_api_coordinator_status_metric(job, coordinator, intendedRole, 0),
       push_api_cluster_status_metric(job, clusterName, 0),
       push_api_total_executor_metric(job, clusterName, 0),
       push_api_current_executor_metric(job, clusterName, 0),
       push_api_cluster_memory_allocated_metric(job, clusterName, 1024),
       push_api_cluster_memory_used_metric(job, clusterName, 0) >>

ResetClusterPushes(job, coordinator, intendedRole, clusterName) ==
    << push_api_coordinator_status_metric(job, coordinator, intendedRole, 0),
       push_api_cluster_status_metric(job, clusterName, 0),
       push_api_total_executor_metric(job, clusterName, 0),
       push_api_current_executor_metric(job, clusterName, 0),
       push_api_cluster_memory_allocated_metric(job, clusterName, 0),
       push_api_cluster_memory_used_metric(job, clusterName, 0) >>

ResetExecutorPushesDeletes(job, executorNode) ==
    << [op |-> "push", fn |-> "delete_from_gateway", name |-> sql_executor_metric,
        job |-> job, labels |-> {<<"executor", executorNode>>},
        grouping |-> {<<"job", job>>, <<"executor", executorNode>>}, value |-> Num(0)] >>

ResetExecutorPushes(job, executorNode) ==
    << push_sql_metric(sql_executor_metric, job, executorNode, 0),
       push_sql_metric(sql_threads_waiting_value, job, executorNode, 0),
       push_sql_metric(sql_direct_max_value, job, executorNode, 0),
       push_sql_metric(sql_direct_current_value, job, executorNode, 0),
       push_sql_metric(sql_heap_max_value, job, executorNode, 0),
       push_sql_metric(sql_heap_current_value, job, executorNode, 0) >>

\* dremioMetrics.py
SweepClusterPart(item, job, coordinator, intendedRole) ==
    IF api_cluster_status_metric \notin item.names THEN Outcome(<<>>, NoError)
    ELSE IF ~ ({"cluster", "job"} \subseteq LabelNames(item.labels))
      THEN Outcome(<<>>, Error("KeyError", "sweep"))
    ELSE IF JobMatches(LabelValue(item.labels, "job"), job)
      THEN Outcome(ResetClusterPushes(job, coordinator, intendedRole,
                                      LabelValue(item.labels, "cluster")), NoError)
    ELSE Outcome(<<>>, NoError)

SweepExecutorPart(item, job) ==
    IF sql_executor_metric \notin item.names THEN Outcome(<<>>, NoError)
    ELSE IF ~ ({"job", "executor"} \subseteq LabelNames(item.labels))
      THEN Outcome(<<>>, Error("KeyError", "sweep"))
    ELSE IF JobMatches(LabelValue(item.labels, "job"), job)
      THEN Outcome(ResetExecutorPushes(job, LabelValue(item.labels, "executor")), NoError)
    ELSE Outcome(<<>>, NoError)

\* dremioSourceMetrics.py: sourceName is not defined anywhere: evaluating the
\* arguments of push_source_status_metric raises NameError.
SweepSourcePart(item, job) ==
    IF api_source_status_metric \notin item.names THEN Outcome(<<>>, NoError)
    ELSE IF ~ ({"job", "type"} \subseteq LabelNames(item.labels))
      THEN Outcome(<<>>, Error("KeyError", "sweep"))
    ELSE IF JobMatches(LabelValue(item.labels, "job"), job)
      THEN Outcome(<<>>, Error("NameError", "sweep"))
    ELSE Outcome(<<>>, NoError)

SweepVdsPart(item, job) ==
    IF sql_vds_count_value \notin item.names THEN Outcome(<<>>, NoError)
    ELSE IF "job" \notin LabelNames(item.labels)
      THEN Outcome(<<>>, Error("KeyError", "sweep"))
    ELSE IF JobMatches(LabelValue(item.labels, "job"), job)
      THEN Outcome(<<push_sql_metric2(sql_vds_count_value, job, 0)>>, NoError)
    ELSE Outcome(<<>>, NoError)

\* the first "if ... in item" block, then the second unless the first raised
Then(first, second) ==
    IF first.error # NoError THEN first
    ELSE Outcome(first.pushes \o second.pushes, second.error)

SweepOutcome(c, item, job, coordinator, intendedRole) ==
    IF c = 1
      THEN Then(SweepClusterPart(item, job, coordinator, intendedRole),
                SweepExecutorPart(item, job))
      ELSE Then(SweepSourcePart(item, job), SweepVdsPart(item, job))

\* position after element i of a loop over seq
AfterElement(i, seq, loopPc, exitPc) == IF i < Len(seq) THEN loopPc ELSE exitPc

(***************************************************************************)
(* status == 0: requests.get(pgwendpoint + pgw_api_url) and its check.     *)
(***************************************************************************)
ListingOkUnchecked(code) == code >= 200

ListingOk(code) == code = 200

ListMetrics ==
    /\ pc = "branch"
    /\ status = 0
    /\ \E code \in {200, 503} :
         /\ calls' = Append(calls, Http("GET", pgwendpoint, pgw_api_url, code))
         /\ IF ListingOk(code)
              THEN \E listing \in Listings :
                     /\ items' = listing
                     /\ idx' = 1
                     /\ pc' = AfterElement(0, listing, "sweep", "done")
                     /\ UNCHANGED error
              ELSE /\ Abort(ApiFailure("ListMetrics", code))
                   /\ UNCHANGED <<items, idx>>
    /\ response' = "bound"
    /\ UNCHANGED <<config, role, masterStatus, standbyStatus, status,
                   activeCoordinator, clusters, containers>>

SweepItem ==
    /\ pc = "sweep"
    /\ LET out == SweepOutcome(collector, items[idx], dremioCluster,
                               activeCoordinator, role)
       IN /\ calls' = calls \o out.pushes
          /\ IF out.error # NoError
               THEN /\ Abort(out.error)
                    /\ UNCHANGED idx
               ELSE /\ idx' = idx + 1
                    /\ pc' = AfterElement(idx, items, "sweep", "done")
                    /\ UNCHANGED error
    /\ UNCHANGED <<config, response, role, masterStatus, standbyStatus, status,
                   activeCoordinator, items, clusters, containers>>

(***************************************************************************)
(* status != 0: POST login at the active coordinator.                      *)
(***************************************************************************)
LoginOk(code) == code = 200

Login ==
    /\ pc = "branch"
    /\ status # 0
    /\ \E code \in {200, 401} :
         /\ calls' = Append(calls, Http("POST", activeCoordinator, login_url, code))
         /\ IF LoginOk(code)
              THEN /\ pc' = "getList"
                   /\ UNCHANGED error
              ELSE Abort(ErrorWithCode("RuntimeError", "Login", code, FALSE))
    /\ response' = "bound"
    /\ UNCHANGED <<config, role, masterStatus, standbyStatus, status,
                   activeCoordinator, items, clusters, containers, idx>>

(***************************************************************************)
(* Answers of the provisioning API.  Property values are strings, as in    *)
(* the JSON of the API; IntOf is Python's int() on the strings used.       *)
(***************************************************************************)
IntOf(s) == CASE s = "0" -> 0
              [] s = "1000" -> 1000
              [] s = "2048" -> 2048
              [] s = "4096" -> 4096

Prop(k, v) == [key |-> k, value |-> v]
Executor(host, mem) ==
    [containerPropertyList |-> <<Prop("host", host), Prop("memoryMB", mem)>>]
ExecutorMemFirst(host, mem) ==
    [containerPropertyList |-> <<Prop("memoryMB", mem), Prop("cores", "4"), Prop("host", host)>>]

RunningLists ==
    { <<>>,
      <<Executor("e1", "4096"), Executor("e2", "4096")>>,
      <<ExecutorMemFirst("e1", "2048"), Executor("e2", "1000")>>,
      <<Executor("e1", "4096"), Executor("e2", "4096"), Executor("e3", "4096")>> }

Cluster(name, state, pending, provisioning, decommissioning, running) ==
    [name |-> name, currentState |-> state,
     containers |-> [pendingCount |-> pending, provisioningCount |-> provisioning,
                     decommissioningCount |-> decommissioning, runningList |-> running]]

ClusterChoices(name) ==
    { Cluster(name, "RUNNING", p, v, d, r) :
        p \in 0..MaxCount, v \in 0..MaxCount, d \in 0..MaxCount, r \in RunningLists }
    \cup { Cluster(name, "STOPPED", 0, 0, 0, <<>>) }

SecondClusterChoices(name) ==
    { Cluster(name, "STOPPED", 0, 0, 0, <<>>),
      Cluster(name, "RUNNING", 0, 0, 0, <<Executor("e4", "4096"), Executor("e5", "4096")>>) }

ClusterLists ==
    {<<>>} \cup { <<c>> : c \in ClusterChoices("c1") }
           \cup { <<c, d>> : c \in ClusterChoices("c1"), d \in SecondClusterChoices("c2") }

(***************************************************************************)
(* "for container in runningContainers": memoryMB keeps its last value,    *)
(* usedMemoryMB accumulates int(memoryMB).                                 *)
(***************************************************************************)
RECURSIVE LastValue(_, _, _)
LastValue(propertyList, k, default) ==
    IF propertyList = <<>> THEN default
    ELSE LastValue(Tail(propertyList), k,
                   IF Head(propertyList).key = k THEN Head(propertyList).value ELSE default)

RECURSIVE ScanContainers(_, _, _)
ScanContainers(runningContainers, memoryMB, usedMemoryMB) ==
    IF runningContainers = <<>>
      THEN [memoryMB |-> memoryMB, usedMemoryMB |-> usedMemoryMB]
      ELSE LET m == LastValue(Head(runningContainers).containerPropertyList,
                              "memoryMB", memoryMB)
           IN ScanContainers(Tail(runningContainers), m, usedMemoryMB + IntOf(m))

DesiredExecutorCountAddsAll(pendingCount, provisioningCount, runningCount, decommissioningCount) ==
    pendingCount + provisioningCount + runningCount + decommissioningCount

DesiredExecutorCount(pendingCount, provisioningCount, runningCount, decommissioningCount) ==
    pendingCount + provisioningCount + runningCount - decommissioningCount

IsRunning(cluster) == cluster.currentState = "RUNNING"

\* body of "for cluster in clusters"
ClusterPushes(job, cluster) ==
    IF IsRunning(cluster)
      THEN LET runningCount == Len(cluster.containers.runningList)
               desiredExecutorCount ==
                   DesiredExecutorCount(cluster.containers.pendingCount,
                                        cluster.containers.provisioningCount,
                                        runningCount,
                                        cluster.containers.decommissioningCount)
               scan == ScanContainers(cluster.containers.runningList, "0", 0)
               yarnMemoryMB == desiredExecutorCount * IntOf(scan.memoryMB)
           IN << push_api_cluster_status_metric(job, cluster.name, 1),
                 push_api_total_executor_metric(job, cluster.name, desiredExecutorCount),
                 push_api_current_executor_metric(job, cluster.name, runningCount),
                 push_api_cluster_memory_allocated_metric(job, cluster.name, yarnMemoryMB),
                 push_api_cluster_memory_used_metric(job, cluster.name, scan.usedMemoryMB) >>
      ELSE << push_api_cluster_status_metric(job, cluster.name, 0),
              push_api_total_executor_metric(job, cluster.name, 0),
              push_api_current_executor_metric(job, cluster.name, 0),
              push_api_cluster_memory_allocated_metric(job, cluster.name, 0),
              push_api_cluster_memory_used_metric(job, cluster.name, 0) >>

(***************************************************************************)
(* Collector 1: GET the cluster list, then walk it.                        *)
(***************************************************************************)
GetClusterList ==
    /\ pc = "getList"
    /\ collector = 1
    /\ \E code \in {200, 500} :
         /\ calls' = Append(calls, Http("GET", activeCoordinator, cluster_url, code))
         /\ IF code = 200
              THEN \E list \in ClusterLists :
                     /\ clusters' = list
                     /\ idx' = 1
                     /\ pc' = AfterElement(0, list, "walk", "sqlConnect")
                     /\ UNCHANGED error
              ELSE /\ Abort(ApiFailure("GetClusterList", code))
                   /\ UNCHANGED <<clusters, idx>>
    /\ UNCHANGED <<config, response, role, masterStatus, standbyStatus, status,
                   activeCoordinator, items, containers>>

WalkCluster ==
    /\ pc = "walk"
    /\ collector = 1
    /\ calls' = calls \o ClusterPushes(dremioCluster, clusters[idx])
    /\ idx' = idx + 1
    /\ pc' = AfterElement(idx, clusters, "walk", "sqlConnect")
    /\ UNCHANGED <<config, response, role, masterStatus, standbyStatus, status,
                   activeCoordinator, items, clusters, containers, error>>

(***************************************************************************)
(* Collector 2: GET the root catalog, then one detail GET per entry of     *)
(* container type SOURCE; its status code is pushed as the source status.  *)
(***************************************************************************)
ContainerTypes == {"SOURCE", "SPACE", "HOME"}
EntryName(i) == <<"s1", "s2", "s3", "s4">>[i]
EntryId(i) == <<"id-1", "id-2", "id-3", "id-4">>[i]
Entry(i, type) == [id |-> EntryId(i), containerType |-> type, path |-> <<EntryName(i)>>]

GetCatalog ==
    /\ pc = "getList"
    /\ collector = 2
    /\ \E code \in {200, 500} :
         /\ calls' = Append(calls, Http("GET", activeCoordinator, catalog_url, code))
         /\ IF code = 200
              THEN \E k \in 0..MaxEntries : \E types \in [1..k -> ContainerTypes] :
                     /\ containers' = [i \in 1..k |-> Entry(i, types[i])]
                     /\ idx' = 1
                     /\ pc' = AfterElement(0, types, "walk", "sqlConnect")
                     /\ UNCHANGED error
              ELSE /\ Abort(ApiFailure("GetCatalog", code))
                   /\ UNCHANGED <<containers, idx>>
    /\ UNCHANGED <<config, response, role, masterStatus, standbyStatus, status,
                   activeCoordinator, items, clusters>>

IsSource(container) == container.containerType = "SOURCE"

SourceStatusValueAsFlag(status_code) == IF status_code = 200 THEN 1 ELSE 0

SourceStatusValue(status_code) == status_code

\* body of "for container in containers", the detail GET answering with code
ContainerCalls(job, coordinator, container, code) ==
    IF IsSource(container)
      THEN << HttpDetail(coordinator, container.id, code),
              push_source_status_metric(job, container.path[1], SourceStatusValue(code)) >>
      ELSE <<>>

WalkContainer ==
    /\ pc = "walk"
    /\ collector = 2
    /\ \E code \in {200, 404, 500} :
         /\ ~IsSource(containers[idx]) => code = 200       \* no fetch: one outcome
         /\ calls' = calls \o ContainerCalls(dremioCluster, activeCoordinator,
                                             containers[idx], code)
    /\ idx' = idx + 1
    /\ pc' = AfterElement(idx, containers, "walk", "sqlConnect")
    /\ UNCHANGED <<config, response, role, masterStatus, standbyStatus, status,
                   activeCoordinator, items, clusters, containers, error>>

(***************************************************************************)
(* SQL metrics.  A failing jaydebeapi call raises and ends the run.        *)
(***************************************************************************)
HostName(i) == <<"e1", "e2", "e3", "e4">>[i]

CountRows(n) == [i \in 1..n |-> <<HostName(i), i>>]
MemoryRows(n) == [i \in 1..n |-> <<HostName(i), 8 * i, 4 * i, 2 * i, i>>]
VdsRows(n) == [i \in 1..n |-> <<6 + i>>]

SqlConnect ==
    /\ pc = "sqlConnect"
    /\ \E ok \in BOOLEAN :
         /\ calls' = Append(calls, Sql("connect", activeCoordinator, ok))
         /\ IF ok
              THEN /\ pc' = IF collector = 1 THEN "sqlExecutors" ELSE "sqlVds"
                   /\ UNCHANGED error
              ELSE Abort(Error("DatabaseError", "SqlConnect"))
    /\ UNCHANGED <<config, response, role, masterStatus, standbyStatus, status,
                   activeCoordinator, items, clusters, containers, idx>>

ExecutorCountPushes(job, result) ==
    [i \in 1..Len(result) |->
        push_sql_metric(sql_executor_metric, job, result[i][1], result[i][2])]

ThreadCountPushes(job, result) ==
    [i \in 1..Len(result) |->
        push_sql_metric(sql_threads_waiting_value, job, result[i][1], result[i][2])]

MemoryPushes(job, result) ==
    Flatten([i \in 1..Len(result) |->
        << push_sql_metric(sql_direct_max_value, job, result[i][1], result[i][2]),
           push_sql_metric(sql_direct_current_value, job, result[i][1], result[i][3]),
           push_sql_metric(sql_heap_max_value, job, result[i][1], result[i][4]),
           push_sql_metric(sql_heap_current_value, job, result[i][1], result[i][5]) >>])

VdsCountPushes(job, result) ==
    [i \in 1..Len(result) |-> push_sql_metric2(sql_vds_count_value, job, result[i][1])]

\* cursor.execute(query); cursor.fetchall(); the loop over the rows
SqlQuery(what, next, ok, pushes) ==
    /\ calls' = Append(calls, Sql(what, activeCoordinator, ok))
                \o (IF ok THEN pushes ELSE <<>>)
    /\ IF ok
         THEN /\ pc' = next
              /\ UNCHANGED error
         ELSE Abort(Error("DatabaseError", what))
    /\ UNCHANGED <<config, response, role, masterStatus, standbyStatus, status,
                   activeCoordinator, items, clusters, containers, idx>>

SqlExecutorCount ==
    /\ pc = "sqlExecutors"
    /\ \E ok \in BOOLEAN, n \in 0..MaxRows :
         /\ ~ok => n = 0
         /\ SqlQuery("sys.nodes", "sqlThreads", ok,
                     ExecutorCountPushes(dremioCluster, CountRows(n)))

SqlThreadCount ==
    /\ pc = "sqlThreads"
    /\ \E ok \in BOOLEAN, n \in 0..MaxRows :
         /\ ~ok => n = 0
         /\ SqlQuery("sys.threads", "sqlMemory", ok,
                     ThreadCountPushes(dremioCluster, CountRows(n)))

\* the last query of collector 1, then cursor.close()
SqlMemory ==
    /\ pc = "sqlMemory"
    /\ \E ok \in BOOLEAN, n \in 0..MaxRows :
         /\ ~ok => n = 0
         /\ SqlQuery("sys.memory", "done", ok,
                     MemoryPushes(dremioCluster, MemoryRows(n)))

SqlVdsCount ==
    /\ pc = "sqlVds"
    /\ \E ok \in BOOLEAN, n \in 0..MaxRows :
         /\ ~ok => n = 0
         /\ SqlQuery("information_schema.TABLES", "done", ok,
                     VdsCountPushes(dremioCluster, VdsRows(n)))

Next ==
    \/ CheckMaster
    \/ MasterConnectionError
    \/ PushMasterStatus
    \/ CheckStandby
    \/ ResolveStatus
    \/ ListMetrics
    \/ SweepItem
    \/ Login
    \/ GetClusterList
    \/ WalkCluster
    \/ GetCatalog
    \/ WalkContainer
    \/ SqlConnect
    \/ SqlExecutorCount
    \/ SqlThreadCount
    \/ SqlMemory
    \/ SqlVdsCount

Spec == Init /\ [][Next]_vars

(***************************************************************************)
(* Vocabulary of the properties, read off the log of external calls.       *)
(***************************************************************************)
Terminated == pc \in {"done", "aborted"}

IsPush(c) == c.op = "push"
IsHttp(c) == c.op = "http"
IsSql(c) == c.op = "sql"

PushIdx == {i \in DOMAIN calls : IsPush(calls[i])}
HttpIdx == {i \in DOMAIN calls : IsHttp(calls[i])}

\* the first call of every run is the status probe of the primary
PrimaryProbed == calls # <<>>
PrimaryUnreachable == PrimaryProbed /\ calls[1].code = 0
PrimaryReached == PrimaryProbed /\ calls[1].code # 0

ListingIdx == {i \in HttpIdx : calls[i].host = pgwendpoint /\ calls[i].path = pgw_api_url}
LiveCallIdx ==
    {i \in DOMAIN calls :
        \/ IsSql(calls[i])
        \/ IsHttp(calls[i])
           /\ calls[i].path \in {login_url, cluster_url, catalog_url, catalog_detail}}

ResetMetricNames1 == ClusterMetricNames \cup SqlMetricNames
ResetMetricNames2 == {api_source_status_metric, sql_vds_count_value}
ResetMetricNames(c) == IF c = 1 THEN ResetMetricNames1 ELSE ResetMetricNames2

\* v is the fraction n / d
ValueIs(v, n, d) == v.num * d = n * v.den

(***************************************************************************)
(* C1: a connection failure of the primary's status probe (and of the      *)
(* probe made for the standby) is never fatal: once the primary's probe    *)
(* has failed, the run does not end inside the connection-failure handler  *)
(* and leaves it with a health code assigned (masterStatus 0 or 1 in       *)
(* collector 1, status 0 or 1 in collector 2).                             *)
(***************************************************************************)
C1_ConnectionFailureNeverFatal ==
    PrimaryUnreachable /\ pc # "masterHandler" =>
        /\ ~(pc = "aborted" /\ error.site \in {"MasterConnectionError", "StandbyConnectionError"})
        /\ IF collector = 1 THEN masterStatus \in {0, 1} ELSE status \in {0, 1}

(***************************************************************************)
(* C2: with no standby configured and an unreachable primary, the run      *)
(* never makes a live-metrics call (login, provisioning/catalog, SQL), and *)
(* when it has ended the resolver's code is 0 and the push gateway's       *)
(* listing has been requested.                                             *)
(***************************************************************************)
C2_NoStandbyPrimaryDownResets ==
    ~standbyEnabled /\ PrimaryUnreachable =>
        /\ LiveCallIdx = {}
        /\ Terminated => status = 0 /\ ListingIdx # {}

(***************************************************************************)
(* C3: in collector 1 a health code is pushed for the primary once the     *)
(* resolver has run, and that code is 2 exactly when the primary's status  *)
(* endpoint was reached, 1 exactly when the primary was unreachable and a  *)
(* liveness probe of the standby host had succeeded, and 0 exactly when    *)
(* the primary was unreachable and no such probe had succeeded.            *)
(***************************************************************************)
StandbyLivenessOkBefore(i) ==
    \E j \in 1..(i - 1) : /\ IsHttp(calls[j])
                          /\ calls[j].host = standbyCoordinator
                          /\ calls[j].path = jmx_root
                          /\ calls[j].code # 0

PrimaryStatusPushIdx ==
    {i \in PushIdx : /\ calls[i].name = api_coordinator_status_metric
                     /\ <<"role", "Master">> \in calls[i].labels
                     /\ \A j \in 1..(i - 1) : ~IsPush(calls[j])}

C3_PrimaryHealthCode ==
    collector = 1 =>
      /\ PrimaryProbed /\ pc \notin {"masterHandler", "pushMaster"} => PrimaryStatusPushIdx # {}
      /\ \A i \in PrimaryStatusPushIdx :
            /\ ValueIs(calls[i].value, 2, 1) <=> PrimaryReached
            /\ ValueIs(calls[i].value, 1, 1) <=> PrimaryUnreachable /\ StandbyLivenessOkBefore(i)
            /\ ValueIs(calls[i].value, 0, 1) <=> PrimaryUnreachable /\ ~StandbyLivenessOkBefore(i)

(***************************************************************************)
(* C4: in a run of collector 1 that takes the cascading reset path, every  *)
(* value pushed for a cluster-status, executor-count, memory or SQL metric *)
(* is 0, and the push gateway's listing was requested exactly once, before *)
(* the first of those pushes.                                              *)
(***************************************************************************)
ResetPathTaken == status = 0 /\ ListingIdx # {}

C4_ResetPushesZero ==
    collector = 1 /\ ResetPathTaken =>
        /\ Cardinality(ListingIdx) = 1
        /\ \A i \in PushIdx :
             calls[i].name \in ResetMetricNames1 =>
                 /\ IsZero(calls[i].value)
                 /\ \A l \in ListingIdx : l < i

C4_Witness ==
    /\ collector = 1 /\ pc = "done" /\ ResetPathTaken
    /\ \E i \in PushIdx : calls[i].name = api_cluster_memory_allocated_metric
    /\ \E i \in PushIdx : calls[i].name = sql_heap_current_value

(***************************************************************************)
(* C5: in the cluster-down path of either collector the sweep runs to      *)
(* completion and, for every series of the listing, a reset push is made   *)
(* for it if and only if its metric name is one the collector resets and   *)
(* its job label is the cluster identifier of the command line.            *)
(***************************************************************************)
\* the label that identifies a series inside its job
SubjectLabels(l) == {p \in l : p[1] \in {"cluster", "executor", "source"}}

ResetPushMade(name, labels) ==
    \E i \in PushIdx :
        /\ \E l \in ListingIdx : l < i
        /\ calls[i].name = name
        /\ SubjectLabels(calls[i].grouping) = SubjectLabels(labels)
        /\ <<"job", LabelValue(labels, "job")>> \in calls[i].grouping

AllResetMetricNames == ResetMetricNames1 \cup ResetMetricNames2

C5_SweepResetsExactlyOwnSeries ==
    Terminated /\ status = 0 /\ (\E l \in ListingIdx : calls[l].code = 200) =>
        /\ pc = "done"
        /\ \A k \in DOMAIN items : \A name \in items[k].names \cap AllResetMetricNames :
             ResetPushMade(name, items[k].labels)
               <=> /\ name \in ResetMetricNames(collector)
                   /\ LabelValue(items[k].labels, "job") = dremioCluster

(***************************************************************************)
(* C6: if the push gateway's listing answers with a status other than 200, *)
(* the run has ended with an error, the listing request is its last        *)
(* external call, and no cluster, executor, source or dataset-count series *)
(* was pushed in the run.                                                  *)
(***************************************************************************)
ListingFailed == \E l \in ListingIdx : calls[l].code # 200

C6_ListingFailureAborts ==
    ListingFailed =>
        /\ pc = "aborted"
        /\ error.type # "none"
        /\ \A l \in ListingIdx : l = Len(calls)
        /\ \A i \in PushIdx : calls[i].name \notin AllResetMetricNames

C6_Witness ==
    /\ ListingFailed
    /\ collector = 1
    /\ standbyEnabled
    /\ PushIdx # {}

(***************************************************************************)
(* C7: a non-200 answer of the login, provisioning, catalog or listing     *)
(* endpoint ends the run with a RuntimeError whose message carries the     *)
(* status code (and, except for login, the vendor's error text), and it is *)
(* the last external call of the run.                                      *)
(***************************************************************************)
C7_Non200IsRuntimeErrorWithCode ==
    \A i \in HttpIdx :
        calls[i].path \in {login_url, cluster_url, catalog_url, pgw_api_url}
        /\ calls[i].code # 200 =>
            /\ pc = "aborted"
            /\ i = Len(calls)
            /\ error.type = "RuntimeError"
            /\ error.carries /\ error.code = calls[i].code
            /\ calls[i].path # login_url => error.vendor

(***************************************************************************)
(* C8: every metric pushed carries the job label given on the command      *)
(* line, as the job of the push and in its grouping key.                   *)
(***************************************************************************)
C8_JobLabel ==
    \A i \in PushIdx :
        /\ calls[i].job = dremioCluster
        /\ <<"job", dremioCluster>> \in calls[i].grouping

C8_Witness ==
    /\ pc = "done"
    /\ \E i \in PushIdx : calls[i].name = api_coordinator_status_metric
    /\ \E i \in PushIdx : calls[i].name = api_cluster_status_metric /\ IsZero(calls[i].value)
    /\ \E i \in PushIdx : calls[i].name = sql_direct_max_value /\ ~IsZero(calls[i].value)

(***************************************************************************)
(* C9: for every child cluster in state RUNNING that collector 1 has       *)
(* walked, it pushed cluster status 1, total executors = pending +         *)
(* provisioning + running - decommissioning, current executors = number of *)
(* running executors, used memory = sum of the running executors' memoryMB *)
(* / 1024, and allocated memory = total executors times the memoryMB of    *)
(* one of the running executors / 1024 (0 when no executor is running).    *)
(***************************************************************************)
Walked(list, k) == k \in DOMAIN list /\ k < idx

PushedValues(name, labelName, labelValue) ==
    {calls[i].value : i \in {j \in PushIdx : /\ calls[j].name = name
                                             /\ <<labelName, labelValue>> \in calls[j].labels}}

\* the memoryMB property of one running executor, in MB
MemoryOf(container) ==
    LET props == container.containerPropertyList
        at == CHOOSE j \in DOMAIN props : props[j].key = "memoryMB"
    IN IntOf(props[at].value)

RunningClusterPushedAsClaimed(c) ==
    LET running == c.containers.runningList
        n == Len(running)
        total == c.containers.pendingCount + c.containers.provisioningCount + n
                 - c.containers.decommissioningCount
        mems == [i \in 1..n |-> MemoryOf(running[i])]
        Only(name, Ok(_)) ==
            /\ PushedValues(name, "cluster", c.name) # {}
            /\ \A v \in PushedValues(name, "cluster", c.name) : Ok(v)
    IN /\ Only(api_cluster_status_metric, LAMBDA v : ValueIs(v, 1, 1))
       /\ Only(api_total_executor_metric, LAMBDA v : ValueIs(v, total, 1))
       /\ Only(api_current_executor_metric, LAMBDA v : ValueIs(v, n, 1))
       /\ Only(api_cluster_memory_used_metric, LAMBDA v : ValueIs(v, SeqSum(mems), 1024))
       /\ Only(api_cluster_memory_allocated_metric,
               LAMBDA v : IF n = 0 THEN IsZero(v)
                          ELSE \E i \in 1..n : ValueIs(v, total * mems[i], 1024))

C9_RunningClusterMetrics ==
    collector = 1 =>
        \A k \in DOMAIN clusters :
            Walked(clusters, k) /\ clusters[k].currentState = "RUNNING" =>
                RunningClusterPushedAsClaimed(clusters[k])

\* two running executors of 4096 MB, nothing pending: 2, 8 GB, 8 GB, status 1
C9_Witness ==
    /\ collector = 1
    /\ ~standbyEnabled
    /\ Walked(clusters, 1)
    /\ clusters[1] = Cluster("c1", "RUNNING", 0, 0, 0,
                             <<Executor("e1", "4096"), Executor("e2", "4096")>>)
    /\ PushedValues(api_total_executor_metric, "cluster", "c1") = {Num(2)}
    /\ \A v \in PushedValues(api_cluster_memory_allocated_metric, "cluster", "c1") :
           ValueIs(v, 8, 1)
    /\ \A v \in PushedValues(api_cluster_memory_used_metric, "cluster", "c1") :
           ValueIs(v, 8, 1)
    /\ PushedValues(api_cluster_status_metric, "cluster", "c1") = {Num(1)}

(***************************************************************************)
(* C10: in collector 2's cluster-up path, for every catalog entry walked:  *)
(* an entry of container type SOURCE has exactly one detail fetch and      *)
(* exactly one source-status push, made after the fetch, whose value is    *)
(* the HTTP status code of the fetch; any other entry has no detail fetch  *)
(* and no source-status push.                                              *)
(***************************************************************************)
DetailFetchIdx(entry) ==
    {i \in HttpIdx : calls[i].path = catalog_detail /\ calls[i].id = entry.id}

SourcePushIdx(entry) ==
    {i \in PushIdx : /\ calls[i].name = api_source_status_metric
                     /\ <<"source", entry.path[1]>> \in calls[i].labels}

C10_SourceStatusIsHttpCode ==
    collector = 2 =>
        \A k \in DOMAIN containers :
            Walked(containers, k) =>
                IF containers[k].containerType = "SOURCE"
                  THEN /\ Cardinality(DetailFetchIdx(containers[k])) = 1
                       /\ Cardinality(SourcePushIdx(containers[k])) = 1
                       /\ \A f \in DetailFetchIdx(containers[k]) :
                            \A q \in SourcePushIdx(containers[k]) :
                                f < q /\ ValueIs(calls[q].value, calls[f].code, 1)
                  ELSE /\ DetailFetchIdx(containers[k]) = {}
                       /\ SourcePushIdx(containers[k]) = {}

C10_Witness ==
    /\ collector = 2
    /\ pc = "done"
    /\ \E k \in DOMAIN containers : containers[k].containerType # "SOURCE"
    /\ \E k \in DOMAIN containers :
         /\ \E f \in DetailFetchIdx(containers[k]) : calls[f].code = 404
         /\ \E q \in SourcePushIdx(containers[k]) : ValueIs(calls[q].value, 404, 1)

(***************************************************************************)
(* C11: in collector 1 with a standby configured, when no probe of the     *)
(* primary or of the standby is answered, the run never attempts a login,  *)
(* a provisioning call or a SQL connection, and when it has ended it has   *)
(* pushed coordinator status 0 for the primary, then requested the push    *)
(* gateway's listing and, the listing answered, reset every cluster and    *)
(* executor series of the current job.                                     *)
(***************************************************************************)
NoProbeAnswered(host) ==
    \A i \in HttpIdx :
        calls[i].host = host /\ calls[i].path \in {server_status, jmx_root}
            => calls[i].code = 0

BothUnreachable ==
    /\ PrimaryUnreachable
    /\ NoProbeAnswered(masterCoordinator)
    /\ NoProbeAnswered(standbyCoordinator)

OwnSeriesReset ==
    \A k \in DOMAIN items : \A name \in items[k].names \cap ResetMetricNames1 :
        LabelValue(items[k].labels, "job") = dremioCluster
            => ResetPushMade(name, items[k].labels)

C11_BothDownResets ==
    collector = 1 /\ standbyEnabled /\ BothUnreachable =>
        /\ LiveCallIdx = {}
        /\ Terminated =>
             /\ \E q \in PrimaryStatusPushIdx :
                  /\ IsZero(calls[q].value)
                  /\ \E l \in ListingIdx : q < l
             /\ \A l \in ListingIdx : calls[l].code = 200 => pc = "done" /\ OwnSeriesReset

(***************************************************************************)
(* C12: in a run of either collector, for every coordinator the failover   *)
(* resolver has probed, a coordinator-status gauge with that coordinator's *)
(* instance and role is pushed: it precedes every login, listing,          *)
(* provisioning/catalog and SQL call, and it has been pushed when the run  *)
(* has ended.                                                              *)
(***************************************************************************)
Coordinators == {masterCoordinator, standbyCoordinator}
RoleOf(host) == IF host = masterCoordinator THEN "Master" ELSE "Standby"

Probed(host) ==
    \E i \in HttpIdx : calls[i].host = host /\ calls[i].path \in {server_status, jmx_root}

StatusPushIdx(host) ==
    {i \in PushIdx : /\ calls[i].name = api_coordinator_status_metric
                     /\ calls[i].labels = {<<"instance", host>>, <<"role", RoleOf(host)>>}}

C12_ProbedCoordinatorStatusPushedFirst ==
    \A host \in Coordinators :
        Probed(host) =>
            /\ Terminated => StatusPushIdx(host) # {}
            /\ \A i \in LiveCallIdx \cup ListingIdx :
                 \E q \in StatusPushIdx(host) : q < i

(***************************************************************************)
(* C13: every write of a run to the push gateway is a pushadd (the         *)
(* deletion operation is never used), so every series pushed by the        *)
(* cascading reset is present in the gateway afterwards with the value     *)
(* pushed for it.                                                          *)
(*                                                                         *)
(* The gateway's content is followed through the log: pushadd replaces the *)
(* series of that name in the group of the grouping key, a deletion drops  *)
(* the whole group.                                                        *)
(***************************************************************************)
GatewayApply(store, c) ==
    IF ~IsPush(c) THEN store
    ELSE IF c.fn = "pushadd_to_gateway"
      THEN {x \in store : ~(x.grouping = c.grouping /\ x.name = c.name)}
           \cup {[grouping |-> c.grouping, name |-> c.name, value |-> c.value]}
      ELSE {x \in store : x.grouping # c.grouping}

RECURSIVE GatewayAfter(_, _)
GatewayAfter(store, log) ==
    IF log = <<>> THEN store
    ELSE GatewayAfter(GatewayApply(store, Head(log)), Tail(log))

ResetPushIdx == {i \in PushIdx : \E l \in ListingIdx : l < i}

C13_PushOverwriteOnly ==
    LET store == GatewayAfter({}, calls)
    IN /\ \A i \in PushIdx : calls[i].fn = "pushadd_to_gateway"
       /\ \A i \in ResetPushIdx :
            [grouping |-> calls[i].grouping, name |-> calls[i].name,
             value |-> calls[i].value] \in store

C13_Witness ==
    /\ pc = "done"
    /\ \E i \in ResetPushIdx : calls[i].name = sql_executor_metric
    /\ \E i \in ResetPushIdx : calls[i].name = api_cluster_status_metric
    /\ \E x \in GatewayAfter({}, calls) :
         x.name = api_cluster_status_metric /\ IsZero(x.value)

(***************************************************************************)
(* C14: in both collectors the live path (login, provisioning/catalog      *)
(* calls, SQL) is entered if and only if the status endpoint of the        *)
(* primary or of the standby accepted a connection in the run, whatever    *)
(* the JMX probes answered; otherwise the listing of the reset path is     *)
(* requested.  Every live call is addressed to a coordinator whose status  *)
(* probe succeeded: the primary if it answered, otherwise the standby.     *)
(***************************************************************************)
StatusAccepted(host) ==
    \E i \in HttpIdx : /\ calls[i].host = host
                       /\ calls[i].path = server_status
                       /\ calls[i].code # 0

SomeStatusAccepted == \E host \in Coordinators : StatusAccepted(host)

LiveTarget == IF StatusAccepted(masterCoordinator) THEN masterCoordinator
              ELSE standbyCoordinator

C14_BranchFollowsStatusProbes ==
    /\ LiveCallIdx # {} => SomeStatusAccepted
    /\ ListingIdx # {} => ~SomeStatusAccepted
    /\ Terminated => (LiveCallIdx # {} <=> SomeStatusAccepted)
    /\ \A i \in LiveCallIdx :
         calls[i].host = LiveTarget /\ StatusAccepted(calls[i].host)

\* failover: primary and its JMX port down, standby's status endpoint up
C14_Witness ==
    /\ pc = "done"
    /\ collector = 1
    /\ BothUnreachable = FALSE
    /\ NoProbeAnswered(masterCoordinator)
    /\ \E i \in HttpIdx : calls[i].host = masterCoordinator /\ calls[i].path = jmx_root
    /\ \E i \in LiveCallIdx : IsSql(calls[i]) /\ calls[i].host = standbyCoordinator

====
